---- MODULE Spec2Model ----
(***************************************************************************)
(* The Go board of src/main.rs: GoBoard (grid + capture counters), the     *)
(* flood fill Cluster::from / Cluster::next_piece, the liberty tests and   *)
(* the placement resolution GoBoard::set / update / clear_cluster.         *)
(***************************************************************************)
EXTENDS Integers, Sequences, FiniteSets, TLC

(* ---------------- bounds of the model ---------------- *)

\* Largest board size explored (GoBoard::new takes any usize).
MaxSize == 3

\* A session is followed until this many stones have been captured (both
\* counters together); the call that reaches the bound is still taken.
MaxCaptured == 1

\* The sessions of SpecLedger go on after the first capture: they are played
\* on boards up to this size, until this many stones have been captured.
LedgerSize == 2
MaxLedger == 8

\* Width of usize in the model; wrapping_sub wraps modulo 2^UsizeBits.
UsizeBits == 16

(* ---------------- data ---------------- *)

\* enum BoardCellOption { Black, White, None }
Black == "Black"
White == "White"
None == "None"
BoardCellOption == {Black, White, None}

UsizeModulus == 2 ^ UsizeBits

\* usize::wrapping_sub
wrapping_sub(a, b) == (a - b) % UsizeModulus

\* Vec::contains on the pieces list
contains(pieces, p) == \E i \in 1..Len(pieces) : pieces[i] = p

\* The fields of GoBoard.
VARIABLES size, board, captured_black, captured_white

\* The placements of the surround scenario made so far, in order (used only by
\* SpecSurround; the session of Spec does not keep a log).
VARIABLE done

\* The stones of each colour taken off the board by captures since
\* construction (kept only by SpecLedger; not a field of GoBoard).
VARIABLE removed

\* The last cluster computed on its own by SpecGrids, with its seed and the
\* result of the liberty test on it: empty, or one record.
VARIABLE probe

\* The execution of one Cluster::from call, statement by statement (used
\* only by SpecWalk): the cluster under construction (pieces, color), the
\* call stack of Cluster::from and Cluster::next_piece frames, and the number
\* of next_piece calls made so far.
VARIABLE walk

vars == <<size, board, captured_black, captured_white, done, removed, probe, walk>>

\* No Cluster::from call is in progress.
Idle == [state |-> "idle", pieces |-> <<>>, color |-> None, stack |-> <<>>, calls |-> 0]

\* The GoBoard value held in the variables.
self == [size |-> size, board |-> board,
         captured_black |-> captured_black, captured_white |-> captured_white]

\* GoBoard::new: a size x size grid of None (indexed board[y][x]) and zero counters.
new(n) == [size |-> n,
           board |-> [y \in 0..(n - 1) |-> [x \in 0..(n - 1) |-> None]],
           captured_black |-> 0,
           captured_white |-> 0]

(* ---------------- liberty tests ---------------- *)

\* value that takes a position outside the grid for an empty one.
value_edge_free(b, x, y) == (x < b.size /\ y < b.size) => b.board[y][x] = None

\* GoBoard::value: in bounds and empty.
value(b, x, y) == x < b.size /\ y < b.size /\ b.board[y][x] = None

\* has_liberties without its first disjunct (the neighbour at x + 1).
has_liberties_no_right(b, x, y) ==
    \/ value(b, wrapping_sub(x, 1), y)
    \/ value(b, x, y + 1)
    \/ value(b, x, wrapping_sub(y, 1))

\* GoBoard::has_liberties: some orthogonal neighbour is in bounds and empty.
has_liberties(b, x, y) ==
    \/ value(b, x + 1, y)
    \/ value(b, wrapping_sub(x, 1), y)
    \/ value(b, x, y + 1)
    \/ value(b, x, wrapping_sub(y, 1))

(* ---------------- flood fill ---------------- *)

\* The push guarded by `if !self.pieces.contains(&[x, y])` in next_piece.
push_new(pieces, x, y) ==
    IF ~contains(pieces, <<x, y>>) THEN Append(pieces, <<x, y>>) ELSE pieces

\* Cluster::next_piece: depth-first walk threading the pieces list. visit is
\* one of its four guarded recursive calls:
\* `if !self.pieces.contains(&[x, y]) { self.next_piece(board, x, y) }`.
RECURSIVE next_piece(_, _, _, _, _)

\* next_piece without the test `board.board[y][x] == self.color`: the walk
\* continues through stones of either colour.
next_piece_any_colour(pieces, color, b, x, y) ==
    IF x < b.size /\ y < b.size
    THEN IF color # None /\ b.board[y][x] # None
         THEN next_piece(
                  next_piece(
                      next_piece(
                          next_piece(push_new(pieces, x, y),
                                     color, b, x, IF contains(pieces, <<x, wrapping_sub(y, 1)>>)
                                                  THEN b.size ELSE wrapping_sub(y, 1)),
                          color, b, IF contains(pieces, <<wrapping_sub(x, 1), y>>)
                                    THEN b.size ELSE wrapping_sub(x, 1), y),
                      color, b, IF contains(pieces, <<x + 1, y>>) THEN b.size ELSE x + 1, y),
                  color, b, x, IF contains(pieces, <<x, y + 1>>) THEN b.size ELSE y + 1)
         ELSE pieces
    ELSE pieces

visit(pieces, color, b, x, y) ==
    IF ~contains(pieces, <<x, y>>) THEN next_piece(pieces, color, b, x, y) ELSE pieces

\* next_piece without the test `board.board[y][x] != BoardCellOption::None`.
next_piece_through_empty(pieces, color, b, x, y) ==
    IF x < b.size /\ y < b.size
    THEN IF b.board[y][x] = color
         THEN visit(visit(visit(visit(push_new(pieces, x, y),
                                      color, b, x, wrapping_sub(y, 1)),
                                color, b, wrapping_sub(x, 1), y),
                          color, b, x + 1, y),
                    color, b, x, y + 1)
         ELSE pieces
    ELSE pieces

next_piece(pieces, color, b, x, y) ==
    IF x < b.size /\ y < b.size
    THEN IF b.board[y][x] = color /\ b.board[y][x] # None
         THEN visit(visit(visit(visit(push_new(pieces, x, y),
                                      color, b, x, wrapping_sub(y, 1)),
                                color, b, wrapping_sub(x, 1), y),
                          color, b, x + 1, y),
                    color, b, x, y + 1)
         ELSE pieces
    ELSE pieces

\* Cluster::from without its last call (the neighbour below the seed is
\* never walked).
Cluster_from_no_down(b, x, y) ==
    LET color == b.board[y][x]
    IN [pieces |-> next_piece(next_piece(next_piece(<<<<x, y>>>>,
                                                    color, b, x, wrapping_sub(y, 1)),
                                         color, b, wrapping_sub(x, 1), y),
                              color, b, x + 1, y),
        color |-> color]

\* Cluster::from: the seed, then the up, left, right and down neighbour of
\* the seed, each walked without a contains test.
Cluster_from(b, x, y) ==
    LET color == b.board[y][x]
    IN [pieces |-> next_piece(next_piece(next_piece(next_piece(<<<<x, y>>>>,
                                                               color, b, x, wrapping_sub(y, 1)),
                                                    color, b, wrapping_sub(x, 1), y),
                                         color, b, x + 1, y),
                              color, b, x, y + 1),
        color |-> color]

\* Cluster::has_liberties whose loop returns after the first piece.
Cluster_has_liberties_first_piece(c, b) ==
    has_liberties(b, c.pieces[1][1], c.pieces[1][2])

\* Cluster::has_liberties: some piece has a liberty.
Cluster_has_liberties(c, b) ==
    \E i \in 1..Len(c.pieces) : has_liberties(b, c.pieces[i][1], c.pieces[i][2])

(* ---------------- placement resolution ---------------- *)

\* The grid with every piece of the list emptied (the loop of clear_cluster).
emptied(b, pieces) ==
    [y \in DOMAIN b.board |->
        [x \in DOMAIN b.board[y] |->
            IF contains(pieces, <<x, y>>) THEN None ELSE b.board[y][x]]]

\* clear_cluster crediting the counter of the cluster's own colour.
clear_cluster_same_colour(b, c) ==
    [size |-> b.size,
     board |-> emptied(b, c.pieces),
     captured_black |-> IF c.color = Black
                        THEN b.captured_black + Len(c.pieces)
                        ELSE b.captured_black,
     captured_white |-> IF c.color = White
                        THEN b.captured_white + Len(c.pieces)
                        ELSE b.captured_white]

\* clear_cluster that credits the counter and leaves the stones on the grid.
clear_cluster_keep_stones(b, c) ==
    [size |-> b.size,
     board |-> b.board,
     captured_black |-> IF c.color = White
                        THEN b.captured_black + Len(c.pieces)
                        ELSE b.captured_black,
     captured_white |-> IF c.color = Black
                        THEN b.captured_white + Len(c.pieces)
                        ELSE b.captured_white]

\* clear_cluster with `-=` in place of `+=`.
clear_cluster_subtract(b, c) ==
    [size |-> b.size,
     board |-> emptied(b, c.pieces),
     captured_black |-> IF c.color = White
                        THEN b.captured_black - Len(c.pieces)
                        ELSE b.captured_black,
     captured_white |-> IF c.color = Black
                        THEN b.captured_white - Len(c.pieces)
                        ELSE b.captured_white]

\* clear_cluster whose second arm is the wildcard: every cluster that is not
\* Black is credited to captured_black.
clear_cluster_wildcard(b, c) ==
    [size |-> b.size,
     board |-> emptied(b, c.pieces),
     captured_black |-> IF c.color # Black
                        THEN b.captured_black + Len(c.pieces)
                        ELSE b.captured_black,
     captured_white |-> IF c.color = Black
                        THEN b.captured_white + Len(c.pieces)
                        ELSE b.captured_white]

\* clear_cluster whose loop stops after the first piece.
clear_cluster_first_piece(b, c) ==
    [size |-> b.size,
     board |-> emptied(b, SubSeq(c.pieces, 1, 1)),
     captured_black |-> IF c.color = White
                        THEN b.captured_black + Len(c.pieces)
                        ELSE b.captured_black,
     captured_white |-> IF c.color = Black
                        THEN b.captured_white + Len(c.pieces)
                        ELSE b.captured_white]

\* clear_cluster with `+= 1` in place of `+= c.pieces.len()`.
clear_cluster_count_one(b, c) ==
    [size |-> b.size,
     board |-> emptied(b, c.pieces),
     captured_black |-> IF c.color = White
                        THEN b.captured_black + 1
                        ELSE b.captured_black,
     captured_white |-> IF c.color = Black
                        THEN b.captured_white + 1
                        ELSE b.captured_white]

\* GoBoard::clear_cluster: credit the opposite counter, then empty every piece.
clear_cluster(b, c) ==
    [size |-> b.size,
     board |-> emptied(b, c.pieces),
     captured_black |-> IF c.color = White
                        THEN b.captured_black + Len(c.pieces)
                        ELSE b.captured_black,
     captured_white |-> IF c.color = Black
                        THEN b.captured_white + Len(c.pieces)
                        ELSE b.captured_white]

\* The block repeated five times in GoBoard::update: compute the cluster at
\* the seed and clear it when it has no liberties.
resolve(b, x, y) ==
    LET c == Cluster_from(b, x, y)
    IN IF ~Cluster_has_liberties(c, b) THEN clear_cluster(b, c) ELSE b

\* The neighbour blocks of update: only the coordinate that moved is tested
\* against size (`if x.wrapping_sub(1) < self.size`, `if y + 1 < self.size`).
resolve_x(b, nx, y) == IF nx < b.size THEN resolve(b, nx, y) ELSE b
resolve_y(b, x, ny) == IF ny < b.size THEN resolve(b, x, ny) ELSE b

\* update without its last block (the neighbour below is never resolved).
update_steps_no_down(b, x, y) ==
    LET b0 == resolve(b, x, y)
        b1 == resolve_x(b0, wrapping_sub(x, 1), y)
        b2 == resolve_x(b1, x + 1, y)
        b3 == resolve_y(b2, x, wrapping_sub(y, 1))
    IN <<b, b0, b1, b2, b3, b3>>

\* update without its third block (the neighbour to the right is never resolved).
update_steps_no_right(b, x, y) ==
    LET b0 == resolve(b, x, y)
        b1 == resolve_x(b0, wrapping_sub(x, 1), y)
        b3 == resolve_y(b1, x, wrapping_sub(y, 1))
        b4 == resolve_y(b3, x, y + 1)
    IN <<b, b0, b1, b1, b3, b4>>

\* update that resolves the left neighbour before the own cluster.
update_steps_left_first(b, x, y) ==
    LET b1 == resolve_x(b, wrapping_sub(x, 1), y)
        b0 == resolve(b1, x, y)
        b2 == resolve_x(b0, x + 1, y)
        b3 == resolve_y(b2, x, wrapping_sub(y, 1))
        b4 == resolve_y(b3, x, y + 1)
    IN <<b, b1, b0, b2, b3, b4>>

\* update that resolves the four neighbours before the own cluster.
update_steps_self_last(b, x, y) ==
    LET b1 == resolve_x(b, wrapping_sub(x, 1), y)
        b2 == resolve_x(b1, x + 1, y)
        b3 == resolve_y(b2, x, wrapping_sub(y, 1))
        b4 == resolve_y(b3, x, y + 1)
        b5 == resolve(b4, x, y)
    IN <<b, b1, b2, b3, b4, b5>>

\* GoBoard::update, block by block: the board it is called on, then the board
\* after the own cluster and after the left, right, up and down neighbour.
update_steps(b, x, y) ==
    LET b0 == resolve(b, x, y)
        b1 == resolve_x(b0, wrapping_sub(x, 1), y)
        b2 == resolve_x(b1, x + 1, y)
        b3 == resolve_y(b2, x, wrapping_sub(y, 1))
        b4 == resolve_y(b3, x, y + 1)
    IN <<b, b0, b1, b2, b3, b4>>

update(b, x, y) == update_steps(b, x, y)[6]

\* The assignment self.board[y][x] = piece of GoBoard::set.
write(b, x, y, piece) ==
    [b EXCEPT !.board = [b.board EXCEPT ![y] = [b.board[y] EXCEPT ![x] = piece]]]

\* set that clamps an out-of-range coordinate to the last row or column.
set_clamped(b, x, y, piece) ==
    update(write(b, IF x < b.size THEN x ELSE b.size - 1,
                    IF y < b.size THEN y ELSE b.size - 1, piece),
           IF x < b.size THEN x ELSE b.size - 1,
           IF y < b.size THEN y ELSE b.size - 1)

\* GoBoard::set as a function of the board value.
set(b, x, y, piece) ==
    IF x < b.size /\ y < b.size
    THEN update(write(b, x, y, piece), x, y)
    ELSE b

(* ---------------- the state machine ---------------- *)

\* Coordinates a caller may pass: every in-bounds index, size and size + 5.
Coords(n) == (0..(n - 1)) \cup {n, n + 5}

Init ==
    \E n \in 1..MaxSize :
        /\ size = new(n).size
        /\ board = new(n).board
        /\ captured_black = new(n).captured_black
        /\ captured_white = new(n).captured_white
        /\ done = <<>>
        /\ removed = [col \in {Black, White} |-> 0]
        /\ probe = <<>>
        /\ walk = Idle

\* One call of GoBoard::set(x, y, piece).
Place(x, y, piece) ==
    /\ captured_black + captured_white < MaxCaptured
    /\ \E r \in {set(self, x, y, piece)} :
        /\ size' = r.size
        /\ board' = r.board
        /\ captured_black' = r.captured_black
        /\ captured_white' = r.captured_white

Next ==
    \E x \in Coords(size), y \in Coords(size), piece \in BoardCellOption :
        Place(x, y, piece) /\ UNCHANGED <<done, removed, probe, walk>>

Spec == Init /\ [][Next]_vars

(* ---------------- vocabulary of the claims ---------------- *)

\* The cells of an n x n grid, as <<x, y>>.
Cells(n) == (0..(n - 1)) \X (0..(n - 1))

at(bd, p) == bd[p[2]][p[1]]

Abs(i) == IF i < 0 THEN -i ELSE i

\* Orthogonal adjacency.
Adjacent(p, q) == Abs(p[1] - q[1]) + Abs(p[2] - q[2]) = 1

\* The in-bounds orthogonal neighbours of p.
Neighbours(n, p) == {q \in Cells(n) : Adjacent(p, q)}

\* Least set containing S and closed under adjacent cells of colour col.
RECURSIVE Grow(_, _, _, _)
Grow(bd, n, col, S) ==
    LET T == S \cup {q \in UNION {Neighbours(n, p) : p \in S} : at(bd, q) = col}
    IN IF T = S THEN S ELSE Grow(bd, n, col, T)

\* The maximal orthogonally connected group of stones of one colour that
\* contains p; empty when p holds no stone.
Group(bd, n, p) ==
    IF at(bd, p) = None THEN {} ELSE Grow(bd, n, at(bd, p), {p})

\* The in-bounds empty cells adjacent to a member of S.
Liberties(bd, n, S) ==
    {q \in Cells(n) : at(bd, q) = None /\ \E p \in S : Adjacent(p, q)}

\* The cells of colour col.
Stones(bd, n, col) == {q \in Cells(n) : at(bd, q) = col}

Opposite(col) == IF col = Black THEN White ELSE Black

\* The counter that is credited when a cluster of colour col is removed.
Credit(b, col) == IF col = Black THEN b.captured_white ELSE b.captured_black

\* The calls set(x, y, piece) of the model, and those with a target on the grid.
Calls == Coords(size) \X Coords(size) \X BoardCellOption
InCalls == (0..(size - 1)) \X (0..(size - 1)) \X BoardCellOption

\* The seeds update evaluates, in order; seed i is resolved between
\* the i-th and the (i + 1)-th board of the call when it is on the grid.
Seeds(x, y) == <<<<x, y>>, <<x - 1, y>>, <<x + 1, y>>, <<x, y - 1>>, <<x, y + 1>>>>

(* ---------------- C1 ---------------- *)

\* C1: after every completed set call every maximal group of same-coloured
\* stones on the board has at least one in-bounds adjacent empty cell.
C1_NoLibertylessGroup ==
    \A p \in Cells(size) :
        at(board, p) # None => Liberties(board, size, Group(board, size, p)) # {}

\* A capture has happened and a group of three or more stones
\* with a single liberty stands on the board.
C1_Witness ==
    /\ captured_black + captured_white > 0
    /\ \E p \in Cells(size) :
          /\ Cardinality(Group(board, size, p)) >= 3
          /\ Cardinality(Liberties(board, size, Group(board, size, p))) = 1

(* ---------------- C2 ---------------- *)

\* The board right after the write of the call c = <<x, y, piece>> on the
\* current board, the boards of the call (after the write, then after each of
\* the five blocks of update) and the board when the call returns.
Written(c) == write(self, c[1], c[2], c[3])
StepsOf(c) == update_steps(Written(c), c[1], c[2])
Returned(c) == set(self, c[1], c[2], c[3])

\* Block i changed the board value: it removed a cluster. st[i] is the board
\* before the block, st[i + 1] the board after it, st[6] the board at return.
RemovalIsCredited(st, i, seed) ==
    LET col == at(st[i].board, seed)
        G == Group(st[i].board, st[i].size, seed)
    IN /\ col \in {Black, White}
       /\ \A q \in G : at(st[i + 1].board, q) = None /\ at(st[6].board, q) = None
       /\ \A q \in Cells(st[i].size) \ G : at(st[i + 1].board, q) = at(st[i].board, q)
       /\ Credit(st[i + 1], col) = Credit(st[i], col) + Cardinality(G)
       /\ Credit(st[i + 1], Opposite(col)) = Credit(st[i], Opposite(col))

\* C2: whenever a block of a set call removes a cluster of colour C with k
\* stones, every member cell is empty after the block and when the call
\* returns, no other cell changes in the block, the counter of the opposite
\* colour grows by exactly k (captured_white for a Black cluster,
\* captured_black for a White one) and the other counter is untouched.
C2_RemovalCreditsOpposite ==
    \A c \in InCalls :
        LET st == StepsOf(c)
        IN \A i \in 1..5 :
              st[i + 1] # st[i] =>
                  /\ Seeds(c[1], c[2])[i] \in Cells(size)
                  /\ RemovalIsCredited(st, i, Seeds(c[1], c[2])[i])

\* A call from this state removes a White cluster of two or more stones in
\* one of its blocks.
C2_Witness ==
    \E c \in InCalls :
        LET st == StepsOf(c)
        IN \E i \in 1..5 :
              /\ st[i + 1] # st[i]
              /\ at(st[i].board, Seeds(c[1], c[2])[i]) = White
              /\ st[i + 1].captured_black >= st[i].captured_black + 2

(* ---------------- C3 ---------------- *)

\* The cells that hold colour col on board w and are empty on board r.
Taken(w, r, col) ==
    {q \in Cells(w.size) : at(w.board, q) = col /\ at(r.board, q) = None}

\* The counters of r exceed those of b by the stones taken between w and r.
CountsTaken(b, w, r) ==
    /\ r.captured_white - b.captured_white = Cardinality(Taken(w, r, Black))
    /\ r.captured_black - b.captured_black = Cardinality(Taken(w, r, White))

\* C3: in every set call the growth of captured_white is the number of cells
\* that are Black right after the write and empty at return, and the growth
\* of captured_black is that number for White.
C3_CountersCountRemovedStones ==
    \A c \in InCalls : CountsTaken(self, Written(c), Returned(c))

\* Call c captures its own cluster of two or more stones: the cluster is
\* reached as the seed cluster and again from a neighbour.
SelfCaptureOfSeveral(c, w, r) ==
    /\ c[3] # None
    /\ Cardinality(Group(w.board, w.size, <<c[1], c[2]>>)) >= 2
    /\ Cardinality(Taken(w, r, c[3])) >= 2

\* Call c captures a cluster that touches the target on two sides.
CaptureThroughTwoNeighbours(c, w, r) ==
    /\ c[3] # None
    /\ \E p, q \in Neighbours(w.size, <<c[1], c[2]>>) :
          /\ p # q
          /\ q \in Group(w.board, w.size, p)
          /\ p \in Taken(w, r, Opposite(c[3]))

\* From this state one call captures its own cluster of two or more stones
\* and another captures a cluster reached through two neighbours.
C3_Witness ==
    /\ \E c \in InCalls : SelfCaptureOfSeveral(c, Written(c), Returned(c))
    /\ \E c \in InCalls : CaptureThroughTwoNeighbours(c, Written(c), Returned(c))

(* ---------------- C4 ---------------- *)

NotLowered(b, r) ==
    /\ r.captured_black >= b.captured_black
    /\ r.captured_white >= b.captured_white

\* C4: no set call, in or out of bounds, lowers captured_black or
\* captured_white.
C4_CountersNeverDecrease ==
    \A c \in Calls : NotLowered(self, Returned(c))

\* A capture of several stones has been counted.
C4_Witness ==
    captured_black >= 3 \/ captured_white >= 3

(* ---------------- C5 ---------------- *)

\* The target cell of the call c = <<x, y, piece>>.
Target(c) == <<c[1], c[2]>>

\* The group of the target on board w has a liberty.
TargetGroupAlive(c, w) ==
    Liberties(w.board, w.size, Group(w.board, w.size, Target(c))) # {}

\* The target holds the placed colour or nothing; a placed stone stays
\* exactly when its group on w (the board right after the write) has a liberty.
KeptIff(c, r, alive) ==
    /\ at(r.board, Target(c)) = c[3] <=> alive
    /\ at(r.board, Target(c)) = None <=> ~alive

TargetKeptIffAlive(c, w, r) ==
    /\ at(r.board, Target(c)) \in {c[3], None}
    /\ c[3] # None => KeptIff(c, r, TargetGroupAlive(c, w))

\* C5: when set(x, y, colour) returns for an in-bounds (x, y), the cell holds
\* the placed colour or Empty, never the other stone colour; for a stone
\* colour it holds the placed colour exactly when the cluster of (x, y) right
\* after the write had a liberty, and Empty exactly when it had none.
C5_TargetIsPlacedOrEmpty ==
    \A c \in InCalls : TargetKeptIffAlive(c, Written(c), Returned(c))

\* The placed stone takes the last liberty of an adjacent cluster of the
\* other colour and has no liberty itself: it is the one removed.
SelfCaptureBesideDeadOpponent(c, w, r) ==
    /\ c[3] # None
    /\ ~TargetGroupAlive(c, w)
    /\ at(r.board, Target(c)) = None
    /\ \E p \in Neighbours(w.size, Target(c)) :
          /\ at(w.board, p) = Opposite(c[3])
          /\ Liberties(w.board, w.size, Group(w.board, w.size, p)) = {}

\* From this state one call is such a self-capture, another overwrites a
\* stone of the other colour and stays.
C5_Witness ==
    /\ \E c \in InCalls : SelfCaptureBesideDeadOpponent(c, Written(c), Returned(c))
    /\ \E c \in InCalls :
          /\ c[3] # None
          /\ at(board, Target(c)) = Opposite(c[3])
          /\ at(Returned(c).board, Target(c)) = c[3]

(* ---------------- C6 ---------------- *)

\* The grid of board value r is indexed by 0..size-1 in both directions.
GridShape(r) ==
    /\ DOMAIN r.board = 0..(r.size - 1)
    /\ \A y \in DOMAIN r.board : DOMAIN r.board[y] = 0..(r.size - 1)

\* C6: a set call with x >= size or y >= size (x = size, x = size + 5, any y,
\* any colour) changes no grid cell and neither counter; and no call writes a
\* cell outside the size x size grid.
C6_OutOfBoundsIsNoOp ==
    /\ \A c \in Calls \ InCalls : Returned(c) = self
    /\ \A c \in Calls : GridShape(Returned(c))

\* Stones of both colours stand on the board, a counter is not zero, and the
\* out-of-bounds calls at x = size and at x = size + 5 leave all of it alone.
C6_Witness ==
    /\ Stones(board, size, Black) # {}
    /\ Stones(board, size, White) # {}
    /\ captured_black + captured_white > 0
    /\ set(self, size, 0, White) = self
    /\ set(self, size + 5, size, Black) = self
    /\ set(self, 0, size, None) = self

(* ---------------- C7 ---------------- *)

\* r differs from b at most in cell p, which is empty in r; counters agree.
OnlyEmptied(b, r, p) ==
    /\ r.captured_black = b.captured_black
    /\ r.captured_white = b.captured_white
    /\ at(r.board, p) = None
    /\ \A q \in Cells(b.size) \ {p} : at(r.board, q) = at(b.board, q)

\* C7: set(x, y, Empty) at an in-bounds cell changes neither counter and no
\* cell other than (x, y), which becomes Empty; when (x, y) is already Empty
\* the whole board value is the same before and after the call.
C7_PlacingEmptyOnlyEmptiesTarget ==
    \A c \in InCalls :
        c[3] = None =>
            /\ OnlyEmptied(self, Returned(c), Target(c))
            /\ at(board, Target(c)) = None => Returned(c) = self

\* An empty cell with no empty neighbour, where set(x, y, Empty) hands the
\* one-cell None cluster to clear_cluster and still changes nothing, and a
\* stone that set(x, y, Empty) takes off the board.
C7_Witness ==
    /\ \E p \in Cells(size) :
          /\ at(board, p) = None
          /\ Neighbours(size, p) # {}
          /\ \A q \in Neighbours(size, p) : at(board, q) # None
          /\ set(self, p[1], p[2], None) = self
    /\ \E p \in Cells(size) :
          /\ at(board, p) # None
          /\ at(set(self, p[1], p[2], None).board, p) = None

(* ---------------- C8 ---------------- *)

\* The groups of colour col on the current board whose only liberty is l.
DyingAt(l, col) ==
    {q \in Cells(size) :
        /\ at(board, q) = col
        /\ Liberties(board, size, Group(board, size, q)) = {l}}

\* Every cell of G is empty on r and the counter credited for colour col has
\* grown by exactly k between b and r.
RemovedAndCredited(b, r, G, col, k) ==
    /\ \A q \in G : at(r.board, q) = None
    /\ Credit(r, col) = Credit(b, col) + k

\* Group G of colour col has a single liberty, and a stone of either colour
\* placed on it removes G and credits exactly its stones.
AnyStoneCaptures(G, col) ==
    \A l \in Cells(size) : \A piece \in {Black, White} :
        Liberties(board, size, G) = {l} =>
            RemovedAndCredited(self, set(self, l[1], l[2], piece), G, col, Cardinality(G))

\* Group G of colour col has a single liberty, and a stone of the other
\* colour that keeps a liberty where it is placed removes G and credits the
\* stones of all groups of colour col dying at that cell.
OpposingStoneCaptures(G, col, libs) ==
    \A l \in libs :
        (libs = {l} /\ TargetGroupAlive(<<l[1], l[2], Opposite(col)>>,
                                        write(self, l[1], l[2], Opposite(col)))) =>
            RemovedAndCredited(self, set(self, l[1], l[2], Opposite(col)),
                               G, col, Cardinality(DyingAt(l, col)))

\* C8 as stated: placing a stone (of either colour) on the only liberty of
\* a cluster of k stones removes all k member cells and adds exactly k to the
\* counter opposite to the cluster's colour, within that call.
C8_AnyStoneOnLastLibertyCaptures ==
    \A p \in Cells(size) \ Stones(board, size, None) :
        AnyStoneCaptures(Group(board, size, p), at(board, p))

\* C8 (amended): placing a stone of the other colour on the only liberty of
\* a cluster of k stones, when the placed stone's own cluster has a liberty
\* right after the write, removes all k member cells within that call and
\* adds to the counter opposite to the cluster's colour the number of stones
\* of all clusters of that colour whose only liberty was that cell, which is
\* exactly k when this cluster is the only one.
C8_OpposingStoneOnLastLibertyCaptures ==
    \A p \in Cells(size) \ Stones(board, size, None) :
        OpposingStoneCaptures(Group(board, size, p), at(board, p),
                              Liberties(board, size, Group(board, size, p)))

\* A Black cluster of five stones has a single liberty, it is the only Black
\* cluster dying there, and the White stone placed on it keeps a liberty: the
\* call empties the five cells and adds five to captured_white.
C8_Witness ==
    \E p \in Cells(size) : \E l \in Cells(size) :
        /\ at(board, p) = Black
        /\ Cardinality(Group(board, size, p)) = 5
        /\ Liberties(board, size, Group(board, size, p)) = {l}
        /\ DyingAt(l, Black) = Group(board, size, p)
        /\ TargetGroupAlive(<<l[1], l[2], White>>, write(self, l[1], l[2], White))
        /\ set(self, l[1], l[2], White).captured_white = captured_white + 5
        /\ \A q \in Group(board, size, p) : at(set(self, l[1], l[2], White).board, q) = None

(* ---------------- C9 ---------------- *)

\* The five placements of the surround scenario: White in the centre of a
\* 3 x 3 board and Black on its four sides.
Surround == <<<<1, 1, White>>, <<0, 1, Black>>, <<2, 1, Black>>,
              <<1, 0, Black>>, <<1, 2, Black>>>>

InitSurround ==
    /\ size = new(3).size
    /\ board = new(3).board
    /\ captured_black = new(3).captured_black
    /\ captured_white = new(3).captured_white
    /\ done = <<>>
    /\ removed = [col \in {Black, White} |-> 0]
    /\ probe = <<>>
    /\ walk = Idle

\* The next placement of the scenario is any one not made yet.
NextSurround ==
    \E i \in 1..Len(Surround) :
        /\ \A j \in 1..Len(done) : done[j] # i
        /\ Place(Surround[i][1], Surround[i][2], Surround[i][3])
        /\ done' = Append(done, i)
        /\ UNCHANGED <<removed, probe, walk>>

SpecSurround == InitSurround /\ [][NextSurround]_vars

\* C9: after the five placements, in whatever order they were made, (1,1) is
\* empty, the four Black stones stand, captured_black = 1, captured_white = 0.
C9_SurroundedStoneIsCaptured ==
    Len(done) = Len(Surround) =>
        /\ at(board, <<1, 1>>) = None
        /\ \A p \in {<<0, 1>>, <<2, 1>>, <<1, 0>>, <<1, 2>>} : at(board, p) = Black
        /\ captured_black = 1
        /\ captured_white = 0

\* All five placements are made and White was placed last (into the
\* surrounded centre).
C9_Witness ==
    /\ Len(done) = Len(Surround)
    /\ done[Len(Surround)] = 1
    /\ captured_black = 1

(* ---------------- C10 ---------------- *)

\* The cells outside S that are adjacent to a member of S.
Border(n, S) == UNION {Neighbours(n, p) : p \in S} \ S

\* The groups of board b whose in-bounds orthogonal neighbours are all
\* empty, each with its border and its colour.
GroupEntry(b, p, G) ==
    [members |-> G, border |-> Border(b.size, G), color |-> at(b.board, p)]

IsolatedGroups(b) ==
    {e \in {GroupEntry(b, p, Group(b.board, b.size, p)) : p \in Cells(b.size) \ Stones(b.board, b.size, None)} :
        \A q \in e.border : at(b.board, q) = None}

\* Isolated group e is untouched by the call that leads from b through w
\* (the board after the write) to r: its stones stand, its border is still
\* empty and no stone of it is credited to a counter.
Untouched(b, w, r, e) ==
    /\ \A q \in e.members : at(r.board, q) = e.color
    /\ \A q \in e.border : at(r.board, q) = None
    /\ Credit(r, e.color) - Credit(b, e.color)
           = Cardinality({q \in Cells(b.size) \ e.members :
                             at(w.board, q) = e.color /\ at(r.board, q) = None})

\* The cells the call with target t may change: t and the groups, on the
\* board w right after the write, of t and of its in-bounds neighbours.
Reach(w, t) ==
    {t} \cup Group(w.board, w.size, t)
        \cup UNION {Group(w.board, w.size, q) : q \in Neighbours(w.size, t)}

\* The cells that differ between b and r.
Changed(b, r) == {q \in Cells(b.size) : at(r.board, q) # at(b.board, q)}

\* The frame of one in-bounds call with target t, from b through w to r.
Frame(b, w, r, t, isolated) ==
    /\ \A e \in isolated :
          t \notin e.members \cup e.border => Untouched(b, w, r, e)
    /\ LET reach == Reach(w, t)
       IN \A q \in Changed(b, r) \ {t} : q \in reach

\* C10: a cluster whose in-bounds orthogonal neighbours are all Empty keeps
\* every stone, keeps its empty border and is credited to no counter in
\* every set call whose target is neither a member nor adjacent to a member
\* (so also across any sequence of such calls; an out-of-bounds call changes
\* nothing at all); and a set call at (x, y) changes no cell other than
\* (x, y) and the members of the clusters that contain (x, y) or one of its
\* in-bounds neighbours after the write.
C10_FarCallsLeaveClusterAlone ==
    LET isolated == IsolatedGroups(self)
    IN /\ \A c \in InCalls :
             Frame(self, Written(c), Returned(c), Target(c), isolated)
       /\ \A c \in Calls \ InCalls : Returned(c) = self

\* The two-stone Black group (0,0)-(1,0) stands on a 3 x 3 board with an
\* empty border, and a call elsewhere captures a White stone.
C10_Witness ==
    /\ size = 3
    /\ Group(board, size, <<0, 0>>) = {<<0, 0>>, <<1, 0>>}
    /\ at(board, <<0, 0>>) = Black
    /\ \A q \in Border(size, {<<0, 0>>, <<1, 0>>}) : at(board, q) = None
    /\ \E c \in InCalls :
          /\ Target(c) \notin {<<0, 0>>, <<1, 0>>} \cup Border(size, {<<0, 0>>, <<1, 0>>})
          /\ Returned(c).captured_black > captured_black
          /\ Changed(self, Returned(c)) \ {Target(c)} # {}

(* ---------------- C11 ---------------- *)

\* One call of GoBoard::set(x, y, piece) in a session that keeps the ledger:
\* the stones of each colour that stand right after the write and are gone
\* at return are added to removed.
PlaceCounted(x, y, piece) ==
    /\ captured_black + captured_white < MaxLedger
    /\ \E r \in {set(self, x, y, piece)} :
        /\ size' = r.size
        /\ board' = r.board
        /\ captured_black' = r.captured_black
        /\ captured_white' = r.captured_white
        /\ removed' = [col \in {Black, White} |->
                          removed[col]
                            + IF x < size /\ y < size
                              THEN Cardinality(Taken(write(self, x, y, piece), r, col))
                              ELSE 0]

NextLedger ==
    \E x \in Coords(size), y \in Coords(size), piece \in BoardCellOption :
        PlaceCounted(x, y, piece) /\ UNCHANGED <<done, probe, walk>>

\* GoBoard::new(n) on a board of the ledger sessions, with an empty ledger.
InitLedger ==
    \E n \in 1..LedgerSize :
        /\ size = new(n).size
        /\ board = new(n).board
        /\ captured_black = new(n).captured_black
        /\ captured_white = new(n).captured_white
        /\ done = <<>>
        /\ removed = [col \in {Black, White} |-> 0]
        /\ probe = <<>>
        /\ walk = Idle

SpecLedger == InitLedger /\ [][NextLedger]_vars

\* C11 as stated: captured_black is the number of Black stones removed by
\* captures since construction and captured_white the number of White
\* stones removed.
C11_CounterCountsOwnColour ==
    /\ captured_black = removed[Black]
    /\ captured_white = removed[White]

\* C11 (amended): captured_black is the number of White stones removed by
\* captures since construction and captured_white the number of Black
\* stones removed.
C11_CounterCountsOppositeColour ==
    /\ captured_black = removed[White]
    /\ captured_white = removed[Black]

\* Stones of both colours have been captured, one colour in more than one
\* call or several at once.
C11_Witness ==
    /\ removed[Black] >= 1
    /\ removed[White] >= 2
    /\ captured_black # captured_white

(* ---------------- C12 ---------------- *)

\* Every grid of every size up to MaxSize, reachable by play or not.
Grids(n) == [0..(n - 1) -> [0..(n - 1) -> BoardCellOption]]

InitGrids ==
    \E n \in 1..MaxSize : \E bd \in Grids(n) :
        /\ size = n
        /\ board = bd
        /\ captured_black = 0
        /\ captured_white = 0
        /\ done = <<>>
        /\ removed = [col \in {Black, White} |-> 0]
        /\ probe = <<>>
        /\ walk = Idle

\* `let c = Cluster::from(self, x, y)` followed by `c.has_liberties(self)`,
\* at an in-bounds seed (Cluster::from indexes board[y][x] unguarded).
Probe(x, y) ==
    \E c \in {Cluster_from(self, x, y)} :
        /\ probe' = <<[seed |-> <<x, y>>,
                       c |-> c,
                       has_liberties |-> Cluster_has_liberties(c, self)]>>
        /\ UNCHANGED <<size, board, captured_black, captured_white, done, removed, walk>>

NextGrids == \E x \in 0..(size - 1), y \in 0..(size - 1) : Probe(x, y)

SpecGrids == InitGrids /\ [][NextGrids]_vars

\* The list has no two equal entries.
NoDuplicates(pieces) ==
    \A i \in 1..Len(pieces) : \A j \in 1..Len(pieces) :
        pieces[i] = pieces[j] => i = j

\* The set of the entries of the list.
Range(pieces) == {pieces[i] : i \in 1..Len(pieces)}

\* C12: on every grid, Cluster::from seeded at a cell holding a stone returns
\* a list without duplicates whose set is exactly the maximal orthogonally
\* connected group of the seed's colour containing the seed, together with
\* the seed's colour.
C12_ClusterIsTheGroup ==
    \A i \in 1..Len(probe) :
        at(board, probe[i].seed) # None =>
            /\ NoDuplicates(probe[i].c.pieces)
            /\ Range(probe[i].c.pieces) = Group(board, size, probe[i].seed)
            /\ probe[i].c.color = at(board, probe[i].seed)

\* A cluster of at least five stones that leaves out a cell of the other
\* colour, an empty cell and a stone of its own colour was computed from a
\* corner of a 3 x 3 grid.
C12_Witness ==
    /\ size = 3
    /\ Len(probe) = 1
    /\ probe[1].seed = <<0, 0>>
    /\ Len(probe[1].c.pieces) >= 5
    /\ Stones(board, size, Opposite(probe[1].c.color)) # {}
    /\ Stones(board, size, None) # {}
    /\ Stones(board, size, probe[1].c.color) # Range(probe[1].c.pieces)

(* ---------------- C13 ---------------- *)

\* A walk is followed for at most this many calls of next_piece on a board
\* of size n.
CallBudget(n) == 4 * n * n

\* Every grid of size n on which at most two of the three cell values occur
\* (next_piece only tests whether a cell equals the seed's colour).
WalkGrids(n) ==
    UNION {[0..(n - 1) -> [0..(n - 1) -> V]] :
               V \in {{Black, White}, {Black, None}, {White, None}}}

InitWalk ==
    \E n \in 1..MaxSize : \E bd \in WalkGrids(n) :
        /\ size = n
        /\ board = bd
        /\ captured_black = 0
        /\ captured_white = 0
        /\ done = <<>>
        /\ removed = [col \in {Black, White} |-> 0]
        /\ probe = <<>>
        /\ walk = Idle

\* The frame that is executing, and the stack without it.
Top == walk.stack[Len(walk.stack)]
Popped == SubSeq(walk.stack, 1, Len(walk.stack) - 1)

\* The i-th neighbour both Cluster::from and next_piece turn to: up, left,
\* right, down.
Neighbour(x, y, i) ==
    CASE i = 1 -> <<x, wrapping_sub(y, 1)>>
      [] i = 2 -> <<wrapping_sub(x, 1), y>>
      [] i = 3 -> <<x + 1, y>>
      [] i = 4 -> <<x, y + 1>>

\* The stack with the executing frame moved to its next statement.
Advanced == [walk.stack EXCEPT ![Len(walk.stack)].pc = Top.pc + 1]

\* A frame of next_piece(x, y) at its first statement.
Frame_next_piece(p) == [fn |-> "next_piece", x |-> p[1], y |-> p[2], pc |-> 0]

\* Cluster::from(x, y) is called: the cluster holds the seed and the seed's
\* colour, and the first of its four calls is next.
WalkStart(x, y) ==
    /\ walk.state = "idle"
    /\ walk' = [state |-> "running",
                pieces |-> <<<<x, y>>>>,
                color |-> board[y][x],
                stack |-> <<[fn |-> "from", x |-> x, y |-> y, pc |-> 1]>>,
                calls |-> 0]

\* The two tests at the head of next_piece.
Matches(x, y) ==
    x < size /\ y < size /\ board[y][x] = walk.color /\ board[y][x] # None

\* next_piece passes its two tests and pushes the cell unless the list
\* contains it.
WalkEnter ==
    /\ walk.state = "running"
    /\ Top.pc = 0
    /\ Matches(Top.x, Top.y)
    /\ walk' = [walk EXCEPT !.pieces = push_new(walk.pieces, Top.x, Top.y),
                            !.stack = Advanced]

\* next_piece fails one of its two tests and returns.
WalkReject ==
    /\ walk.state = "running"
    /\ Top.pc = 0
    /\ ~Matches(Top.x, Top.y)
    /\ walk' = [walk EXCEPT !.stack = Popped]

\* The guard of the four recursive calls left out: no neighbour is ever
\* found in the list.
Listed_never(p) == FALSE

\* `self.pieces.contains(&[x, y])` as tested before each recursive call of
\* next_piece.
Listed(p) == contains(walk.pieces, p)

\* The executing frame calls next_piece on its next neighbour: always in
\* Cluster::from, and in next_piece when the list does not contain it.
WalkCall ==
    /\ walk.state = "running"
    /\ Top.pc \in 1..4
    /\ Top.fn = "from" \/ ~Listed(Neighbour(Top.x, Top.y, Top.pc))
    /\ walk.calls < CallBudget(size)
    /\ walk' = [walk EXCEPT
                   !.stack = Append(Advanced,
                                    Frame_next_piece(Neighbour(Top.x, Top.y, Top.pc))),
                   !.calls = walk.calls + 1]

\* next_piece finds its next neighbour in the list and does not call.
WalkSkip ==
    /\ walk.state = "running"
    /\ Top.pc \in 1..4
    /\ Top.fn = "next_piece"
    /\ Listed(Neighbour(Top.x, Top.y, Top.pc))
    /\ walk' = [walk EXCEPT !.stack = Advanced]

\* The executing frame is past its four neighbours and returns; the return
\* of Cluster::from ends the walk.
WalkReturn ==
    /\ walk.state = "running"
    /\ Top.pc = 5
    /\ walk' = [walk EXCEPT !.stack = Popped,
                            !.state = IF Len(walk.stack) = 1 THEN "returned" ELSE "running"]

WalkStep == WalkEnter \/ WalkReject \/ WalkCall \/ WalkSkip \/ WalkReturn

NextWalk ==
    /\ \/ \E x \in 0..(size - 1), y \in 0..(size - 1) : WalkStart(x, y)
       \/ WalkStep
    /\ UNCHANGED <<size, board, captured_black, captured_white, done, removed, probe>>

\* A call that has started keeps executing.
SpecWalk == InitWalk /\ [][NextWalk]_vars /\ WF_vars(NextWalk)

\* C13: every Cluster::from call that has started returns, whatever the grid
\* and the seed (it is never cut short by the call budget), and the cluster
\* it returns is the one Cluster_from computes.
C13_WalkReturns ==
    /\ walk.state = "running" ~> walk.state = "returned"
    /\ [](walk.state = "returned" =>
              /\ walk.stack = <<>>
              /\ walk.pieces = Cluster_from(self, walk.pieces[1][1], walk.pieces[1][2]).pieces)

\* The walk from a corner of a 3 x 3 board filled with stones of one colour
\* has returned with all nine cells.
C13_Witness ==
    /\ size = 3
    /\ \E col \in {Black, White} : \A p \in Cells(size) : at(board, p) = col
    /\ walk.state = "returned"
    /\ walk.pieces[1] = <<0, 0>>
    /\ Len(walk.pieces) = 9
    /\ walk.calls > 20

(* ---------------- C14 ---------------- *)

\* C14: on every grid, the liberty test of a computed cluster is true exactly
\* when some cell of the grid is empty and orthogonally adjacent to a member:
\* stones of either colour and positions outside the grid do not count.
C14_LibertyTestIsEmptyNeighbour ==
    \A i \in 1..Len(probe) :
        probe[i].has_liberties
            <=> Liberties(board, size, Range(probe[i].c.pieces)) # {}

\* A cluster that runs from the top left to the bottom right corner of a
\* 3 x 3 grid, next to opposing stones, tests as having no liberty while an
\* empty cell stands elsewhere on the grid.
C14_Witness ==
    /\ size = 3
    /\ Len(probe) = 1
    /\ probe[1].seed = <<0, 0>>
    /\ probe[1].c.color # None
    /\ contains(probe[1].c.pieces, <<2, 2>>)
    /\ ~probe[1].has_liberties
    /\ Stones(board, size, Opposite(probe[1].c.color)) # {}
    /\ Stones(board, size, None) # {}

(* ---------------- C15 ---------------- *)

\* The i-th neighbour block of update on board b: left, right, up, down.
block(b, x, y, i) ==
    CASE i = 1 -> resolve_x(b, wrapping_sub(x, 1), y)
      [] i = 2 -> resolve_x(b, x + 1, y)
      [] i = 3 -> resolve_y(b, x, wrapping_sub(y, 1))
      [] i = 4 -> resolve_y(b, x, y + 1)

\* The four blocks evaluated on board b0.
blocks(b0, x, y) ==
    <<block(b0, x, y, 1), block(b0, x, y, 2), block(b0, x, y, 3), block(b0, x, y, 4)>>

\* block(b, x, y, i), looked up in first = blocks(b0, x, y) when b is b0.
then_block(b, x, y, i, b0, first) ==
    IF b = b0 THEN first[i] ELSE block(b, x, y, i)

\* Whatever block is evaluated last after blocks i1, i2, i3, the result is r.
LastBlockGives(b3, x, y, i1, i2, i3, b0, first, r) ==
    \A i4 \in (1..4) \ {i1, i2, i3} : then_block(b3, x, y, i4, b0, first) = r

ThirdBlockGives(b2, x, y, i1, i2, b0, first, r) ==
    \A i3 \in (1..4) \ {i1, i2} :
        LastBlockGives(then_block(b2, x, y, i3, b0, first), x, y, i1, i2, i3, b0, first, r)

SecondBlockGives(b1, x, y, i1, b0, first, r) ==
    \A i2 \in (1..4) \ {i1} :
        ThirdBlockGives(then_block(b1, x, y, i2, b0, first), x, y, i1, i2, b0, first, r)

OrdersGive(b0, first, x, y, r) ==
    \A i1 \in 1..4 : SecondBlockGives(first[i1], x, y, i1, b0, first, r)

\* Every order of the four neighbour blocks, evaluated on the board b0 left
\* by the block of the own cluster, ends with board value r.
EveryOrderGives(b0, x, y, r) == OrdersGive(b0, blocks(b0, x, y), x, y, r)

\* C15: for every set call, evaluating the own cluster first and then the
\* four neighbour blocks in any of their 24 orders gives the grid and the
\* two counters that the implemented order (left, right, up, down) gives.
C15_NeighbourOrderIsIrrelevant ==
    \A c \in InCalls :
        EveryOrderGives(resolve(Written(c), c[1], c[2]), c[1], c[2], Returned(c))

\* A stone placed in the centre of a 3 x 3 board takes the last liberty of
\* two separate opposing clusters at once.
C15_Witness ==
    /\ size = 3
    /\ \E piece \in {Black, White} :
          /\ at(set(self, 1, 1, piece).board, <<1, 1>>) = piece
          /\ Cardinality({i \in 1..4 :
                 block(write(self, 1, 1, piece), 1, 1, i) # write(self, 1, 1, piece)}) >= 2
          /\ \E p \in Neighbours(size, <<1, 1>>) : \E q \in Neighbours(size, <<1, 1>>) :
                /\ at(board, p) = Opposite(piece)
                /\ at(board, q) = Opposite(piece)
                /\ Group(board, size, p) # Group(board, size, q)

(* ---------------- C16 ---------------- *)

\* st are the boards of a call that placed a stone whose group G on the
\* board after the write has no liberty: the first block empties exactly G
\* and credits its stones to the counter opposite to the placed colour, and
\* the four neighbour blocks change nothing after it.
OwnClusterGoesFirst(c, st, G) ==
    /\ \A q \in G : at(st[2].board, q) = None
    /\ \A q \in Cells(st[1].size) \ G : at(st[2].board, q) = at(st[1].board, q)
    /\ Credit(st[2], c[3]) = Credit(st[1], c[3]) + Cardinality(G)
    /\ Credit(st[2], Opposite(c[3])) = Credit(st[1], Opposite(c[3]))
    /\ st[6] = st[2]

\* C16: when the cluster of the just-placed stone has no liberty right after
\* the write, the first block of update removes it and credits it to the
\* opposing colour's counter, and no other cluster is removed in the call,
\* also when the placement took the last liberty of an adjacent opposing
\* cluster.
C16_SelfCaptureComesFirst ==
    \A c \in InCalls :
        (c[3] # None /\ ~TargetGroupAlive(c, Written(c))) =>
            OwnClusterGoesFirst(c, StepsOf(c),
                                Group(Written(c).board, size, Target(c)))

\* A placement that joins a cluster of two or more stones without a liberty
\* also takes the last liberty of an opposing cluster on its left; the
\* placed cluster is removed and the opposing stones stand at return.
C16_Witness ==
    \E c \in InCalls :
        /\ c[3] # None
        /\ c[1] > 0
        /\ ~TargetGroupAlive(c, Written(c))
        /\ Cardinality(Group(Written(c).board, size, Target(c))) >= 2
        /\ at(board, <<c[1] - 1, c[2]>>) = Opposite(c[3])
        /\ Liberties(board, size, Group(board, size, <<c[1] - 1, c[2]>>)) = {Target(c)}
        /\ \A q \in Group(board, size, <<c[1] - 1, c[2]>>) :
              at(Returned(c).board, q) = Opposite(c[3])
        /\ at(Returned(c).board, Target(c)) = None

(* ---------------- C17 ---------------- *)

\* The blocks of update that are evaluated in the call with target (x, y):
\* the own block, and each neighbour block whose seed is on the grid.
Evaluated(x, y) == {i \in 1..5 : Seeds(x, y)[i] \in Cells(size)}

\* Block i of a call computes cl == Cluster::from(st[i], seed) from a seed
\* that holds a stone, and clears it only when its colour is Black or White.
SeedHoldsStone(st, i, seed, cl) ==
    /\ at(st[i].board, seed) # None
    /\ ~Cluster_has_liberties(cl, st[i]) => cl.color \in {Black, White}

EmptySeedIsHarmless(st, i, seed, cl) ==
    /\ at(st[i].board, seed) = None =>
          /\ cl.pieces = <<seed>>
          /\ cl.color = None
          /\ clear_cluster(st[i], cl) = st[i]
          /\ st[i + 1] = st[i]
    /\ st[i + 1] # st[i] => cl.color \in {Black, White}

OneColourTaken(b, w, r) ==
    /\ Taken(w, r, Black) = {} \/ Taken(w, r, White) = {}
    /\ r.captured_black = b.captured_black \/ r.captured_white = b.captured_white

\* When the stone placed by call c stands at return, no stone of its colour
\* was taken and the counter credited for its colour did not move.
SurvivorTakesOpposite(c, b, w, r) ==
    (c[3] # None /\ at(r.board, Target(c)) = c[3]) =>
        /\ Taken(w, r, c[3]) = {}
        /\ Credit(r, c[3]) = Credit(b, c[3])

OneColourInCall(c, b, w, r) ==
    OneColourTaken(b, w, r) /\ SurvivorTakesOpposite(c, b, w, r)

\* C18: no set call removes stones of both colours: at most one of
\* captured_black and captured_white changes in a call, and when the placed
\* stone's own cluster survives only stones of the other colour are removed.
C18_OneColourPerCall ==
    \A c \in InCalls : OneColourInCall(c, self, Written(c), Returned(c))

\* From this state one placement survives and removes two or more stones of
\* the other colour, and another placement of the same colour is removed
\* with its own cluster.
C18_Witness ==
    \E piece \in {Black, White} :
        /\ \E c \in InCalls :
              /\ c[3] = piece
              /\ at(Returned(c).board, Target(c)) = piece
              /\ Cardinality(Taken(Written(c), Returned(c), Opposite(piece))) >= 2
        /\ \E c \in InCalls :
              /\ c[3] = piece
              /\ Cardinality(Taken(Written(c), Returned(c), piece)) >= 2

====
